---- MODULE Spec2Model ----
(***************************************************************************)
(* Model of the NinjaTrader backtest analyzer (src/app.py): the trade      *)
(* parser (parse_profit, load_csv), the metrics engine (compute_metrics),  *)
(* the monthly aggregator (monthly_returns_table) and the page flow that   *)
(* combines the selected uploads and calls them.                           *)
(*                                                                         *)
(* Numbers.  Currency amounts are integers (whole dollars).  A float that  *)
(* may be non-finite is a record: Fin(n, d) is the rational n/d with       *)
(* d > 0, and PInf, NInf, NaN are the IEEE values Python and numpy yield.  *)
(* Time.  A timestamp is an integer count of ticks; there is one modelled  *)
(* calendar day per month, so a date is a month index counted from January *)
(* of the first year.  NaT is the null timestamp of pandas.                *)
(***************************************************************************)
EXTENDS Integers, Sequences, FiniteSets, TLC

VARIABLES
    pc,             \* position of the page script (module level of app.py)
    uploaded_files, \* st.file_uploader: sequence of uploaded files
    all_dfs,        \* label -> loaded DataFrame (sequence of trades)
    capital_map,    \* label -> capital entered for that upload
    selected,       \* st.sidebar.multiselect: sequence of labels
    combined,       \* the working DataFrame of the page
    total_capital,  \* sum of the selected capitals
    start_date,     \* st.sidebar.date_input
    m,              \* result of the last compute_metrics call
    grid,           \* result of the last monthly_returns_table call
    val,            \* argument of parse_profit
    parsed,         \* result of the last parse_profit call
    table,          \* argument of load_csv: the rows of the CSV
    loaded,         \* result of the last load_csv call
    arg_df,         \* argument of compute_metrics and monthly_returns_table
    arg_capital     \* their second argument, starting_capital

vars == <<pc, uploaded_files, all_dfs, capital_map, selected, combined,
          total_capital, start_date, m, grid, val, parsed, table, loaded,
          arg_df, arg_capital>>

-----------------------------------------------------------------------------
(* Bounds of the model *)

\* longest Profit cell, in characters
MaxLen == 5

\* most rows of one CSV
MaxRows == 2

\* most trades of a frame handed to the metrics functions
MaxTrades == 2

\* largest starting capital
MaxCapital == 2

-----------------------------------------------------------------------------
(* Floats *)

Fin(n, d) == [k |-> "fin", n |-> n, d |-> d]
PInf == [k |-> "pinf", n |-> 0, d |-> 1]
NInf == [k |-> "ninf", n |-> 0, d |-> 1]
NaN == [k |-> "nan", n |-> 0, d |-> 1]

IsFinite(x) == x.k = "fin"

\* unary minus of a float
Neg(x) ==
    CASE x.k = "fin" -> Fin(0 - x.n, x.d)
      [] x.k = "pinf" -> NInf
      [] x.k = "ninf" -> PInf
      [] OTHER -> NaN

IsNaN(x) == x.k = "nan"

\* -1, 0 or 1: the sign of a float that is not NaN
Sign(x) ==
    CASE x.k = "pinf" -> 1
      [] x.k = "ninf" -> -1
      [] OTHER -> IF x.n > 0 THEN 1 ELSE IF x.n < 0 THEN -1 ELSE 0

\* IEEE comparisons: every comparison with NaN is false
Lt(x, y) ==
    /\ ~IsNaN(x) /\ ~IsNaN(y)
    /\ CASE x.k = "pinf" -> FALSE
         [] x.k = "ninf" -> y.k # "ninf"
         [] y.k = "pinf" -> TRUE
         [] y.k = "ninf" -> FALSE
         [] OTHER -> x.n * y.d < y.n * x.d

Eq(x, y) ==
    /\ ~IsNaN(x) /\ ~IsNaN(y)
    /\ IF x.k = "fin" /\ y.k = "fin" THEN x.n * y.d = y.n * x.d ELSE x.k = y.k

Le(x, y) == Lt(x, y) \/ Eq(x, y)

\* IEEE addition
Add(x, y) ==
    CASE IsNaN(x) \/ IsNaN(y) -> NaN
      [] x.k = "fin" /\ y.k = "fin" ->
            IF x.d = y.d THEN Fin(x.n + y.n, x.d)
            ELSE Fin(x.n * y.d + y.n * x.d, x.d * y.d)
      [] x.k = "fin" -> y
      [] y.k = "fin" -> x
      [] OTHER -> IF x.k = y.k THEN x ELSE NaN

Sub(x, y) == Add(x, Neg(y))

Abs(x) == IF ~IsNaN(x) /\ Sign(x) < 0 THEN Neg(x) ELSE x

\* numpy float division: a zero divisor gives NaN or an infinity, no error
Div(x, y) ==
    CASE IsNaN(x) \/ IsNaN(y) -> NaN
      [] x.k = "fin" /\ y.k = "fin" ->
            IF y.n = 0
            THEN (IF x.n = 0 THEN NaN ELSE IF x.n > 0 THEN PInf ELSE NInf)
            ELSE IF y.n > 0 THEN Fin(x.n * y.d, x.d * y.n)
                 ELSE Fin(0 - x.n * y.d, 0 - x.d * y.n)
      [] x.k = "fin" -> Fin(0, 1)
      [] y.k = "fin" -> IF Sign(y) < 0 THEN Neg(x) ELSE x
      [] OTHER -> NaN

\* x * 100
Times100(x) == IF x.k = "fin" THEN Fin(100 * x.n, x.d) ELSE x

-----------------------------------------------------------------------------
(* Time *)

\* ticks (times of day) told apart within one day
TicksPerDay == 2

\* range(1, 13): the months of a year
MonthsPerYear == 12

\* the null timestamp
NaT == -1

\* the timestamp of tick h of date d
T(d, h) == d * TicksPerDay + h

\* Timestamp.date()
Date(ts) == ts \div TicksPerDay

\* pd.Timestamp(date): midnight of that date
Timestamp(d) == d * TicksPerDay

\* .dt.year, counted from the first year of the model
Year(ts) == Date(ts) \div MonthsPerYear

\* .dt.month, 1..12
Month(ts) == (Date(ts) % MonthsPerYear) + 1

-----------------------------------------------------------------------------
(* parse_profit *)

\* The characters a Profit cell is made of in the model.
Chars == {"$", "(", ")", ",", "-", "1", "5", "i", "n", "f", "a"}

Digits == {"1", "5"}

DigitVal(c) == IF c = "1" THEN 1 ELSE 5

\* A missing cell (NaN after read_csv) or a string cell.
Missing == [na |-> TRUE, s |-> <<>>]
Cell(s) == [na |-> FALSE, s |-> s]

\* re.sub(r"[$(,)]", "", s)
RECURSIVE Strip(_)
Strip(s) ==
    IF s = <<>> THEN <<>>
    ELSE IF Head(s) \in {"$", "(", ",", ")"} THEN Strip(Tail(s))
         ELSE <<Head(s)>> \o Strip(Tail(s))

\* "(" in s
HasParen(s) == \E i \in 1..Len(s) : s[i] = "("

\* value of a non-empty run of decimal digits
RECURSIVE DecVal(_)
DecVal(s) ==
    IF s = <<>> THEN 0
    ELSE 10 * DecVal(SubSeq(s, 1, Len(s) - 1)) + DigitVal(s[Len(s)])

AllDigits(s) == s # <<>> /\ \A i \in 1..Len(s) : s[i] \in Digits

\* float(s) on an unsigned string: a decimal number, "inf" or "nan";
\* anything else is a ValueError.
UnsignedOk(s) == AllDigits(s) \/ s = <<"i", "n", "f">> \/ s = <<"n", "a", "n">>

UnsignedVal(s) ==
    IF s = <<"i", "n", "f">> THEN PInf
    ELSE IF s = <<"n", "a", "n">> THEN NaN
    ELSE Fin(DecVal(s), 1)

\* float(s): an optional sign, then the unsigned part.
FloatOk(s) ==
    IF s # <<>> /\ Head(s) = "-" THEN UnsignedOk(Tail(s)) ELSE UnsignedOk(s)

FloatVal(s) ==
    IF s # <<>> /\ Head(s) = "-" THEN Neg(UnsignedVal(Tail(s)))
    ELSE UnsignedVal(s)

parse_profit(v) ==
    IF v.na THEN Fin(0, 1)
    ELSE LET negative == HasParen(v.s)
             s == Strip(v.s)
         IN  IF ~FloatOk(s) THEN Fin(0, 1)
             ELSE IF negative THEN Neg(FloatVal(s)) ELSE FloatVal(s)

-----------------------------------------------------------------------------
(* load_csv *)

\* A cell of a time column: a string pd.to_datetime parses (to t), a string
\* it cannot parse, or an empty cell.
OkTime(t) == [k |-> "ok", t |-> t]
BadTime == [k |-> "bad", t |-> NaT]
MissingTime == [k |-> "missing", t |-> NaT]

\* A row of the CSV: the cells of its Profit, Exit time and Entry time columns.
Row(p, x, e) == [Profit |-> p, Exit |-> x, Entry |-> e]

\* A row of a loaded DataFrame.
Trade(pnl, x, e) == [PnL |-> pnl, ExitTime |-> x, EntryTime |-> e]

Raised(e) == [called |-> TRUE, raised |-> TRUE, error |-> e]
Returned(v) == [called |-> TRUE, raised |-> FALSE, value |-> v]

\* pd.to_datetime(cell, format="mixed") of one cell of a column that parses
to_datetime(c) == IF c.k = "ok" THEN c.t ELSE NaT

\* pd.to_datetime raises ValueError for the whole column on a cell it cannot
\* parse (errors="raise" is the default).
ColumnParses(tbl, col) == \A i \in 1..Len(tbl) : tbl[i][col].k # "bad"

load_csv(tbl) ==
    IF ~ColumnParses(tbl, "Exit") \/ ~ColumnParses(tbl, "Entry")
    THEN Raised("ValueError")
    ELSE Returned([i \in 1..Len(tbl) |->
                     Trade(parse_profit(tbl[i].Profit),
                           to_datetime(tbl[i].Exit),
                           to_datetime(tbl[i].Entry))])

-----------------------------------------------------------------------------
(* pandas helpers *)

Range(f) == {f[i] : i \in DOMAIN f}

\* order of sort_values on a time column: ascending, NaT last
TimeLe(a, b) == b = NaT \/ (a # NaT /\ a <= b)

\* the orderings of the rows S of df by exit time: a row that no other row
\* of S precedes comes first, then an ordering of the rest
RECURSIVE Orderings(_, _)
Orderings(df, S) ==
    IF S = {} THEN {<<>>}
    ELSE UNION {{<<df[i]>> \o rest : rest \in Orderings(df, S \ {i})} :
                  i \in {i \in S : \A j \in S :
                                      TimeLe(df[i].ExitTime, df[j].ExitTime)}}

\* df.sort_values("ExitTime").reset_index(drop=True): the default sort is
\* not stable, so rows with equal exit times may come out in any order.
sort_values(df) == Orderings(df, 1..Len(df))

\* the PnL column
PnLs(df) == [i \in 1..Len(df) |-> df[i].PnL]

\* Series.cumsum(): NaN entries count as 0 in the running sum and are NaN
\* in the result (skipna=True)
RECURSIVE RunSum(_, _)
RunSum(xs, i) ==
    IF i = 0 THEN Fin(0, 1)
    ELSE Add(RunSum(xs, i - 1), IF IsNaN(xs[i]) THEN Fin(0, 1) ELSE xs[i])

cumsum(xs) == [i \in 1..Len(xs) |-> IF IsNaN(xs[i]) THEN NaN ELSE RunSum(xs, i)]

FMax(x, y) == IF Lt(x, y) THEN y ELSE x

\* Series.cummax(): NaN entries count as -inf in the running maximum and
\* are NaN in the result
RECURSIVE RunMax(_, _)
RunMax(xs, i) ==
    IF i = 0 THEN NInf
    ELSE FMax(RunMax(xs, i - 1), IF IsNaN(xs[i]) THEN NInf ELSE xs[i])

cummax(xs) == [i \in 1..Len(xs) |-> IF IsNaN(xs[i]) THEN NaN ELSE RunMax(xs, i)]

\* Series.min() of a non-empty series: NaN entries are skipped; NaN when
\* every entry is NaN
SeriesMin(xs) ==
    LET valid == {i \in 1..Len(xs) : ~IsNaN(xs[i])}
    IN  IF valid = {} THEN NaN
        ELSE xs[CHOOSE i \in valid : \A j \in valid : Le(xs[i], xs[j])]

\* Series.sum(): NaN entries are skipped, the empty sum is 0.0
RECURSIVE SeriesSum(_)
SeriesSum(xs) ==
    IF xs = <<>> THEN Fin(0, 1)
    ELSE Add(SeriesSum(SubSeq(xs, 1, Len(xs) - 1)),
             IF IsNaN(xs[Len(xs)]) THEN Fin(0, 1) ELSE xs[Len(xs)])

Zero == Fin(0, 1)

IsPos(x) == Lt(Zero, x)
IsNeg(x) == Lt(x, Zero)

\* truth value of a float: only 0.0 is false
Truthy(x) == ~(x.k = "fin" /\ x.n = 0)

-----------------------------------------------------------------------------
(* compute_metrics *)

\* Lines 133-161 and 167-184 on the sorted frame.  The result keeps the
\* keys computed from PnL and ExitTime alone; cagr and the win-month keys
\* (a real power, a resample) are left out.
MetricsOf(trades, starting_capital) ==
    LET cum == cumsum(PnLs(trades))
        peak == cummax(cum)
        dd == [i \in 1..Len(cum) |-> Sub(cum[i], peak[i])]
        equity == [i \in 1..Len(cum) |-> Add(Fin(starting_capital, 1), cum[i])]
        equity_peak == cummax(equity)
        dd_pct == [i \in 1..Len(cum) |->
                     Times100(Div(Sub(equity[i], equity_peak[i]), equity_peak[i]))]
        n_trades == Len(trades)
        wins == Len(SelectSeq(PnLs(trades), IsPos))
        gross_profit == SeriesSum(SelectSeq(PnLs(trades), IsPos))
        gross_loss == Abs(SeriesSum(SelectSeq(PnLs(trades), IsNeg)))
    IN  [total_pnl |-> IF Len(cum) # 0 THEN cum[Len(cum)] ELSE Zero,
         starting_capital |-> starting_capital,
         max_dd |-> IF Len(dd) # 0 THEN SeriesMin(dd) ELSE Zero,
         max_dd_pct |-> IF Len(dd_pct) # 0 THEN SeriesMin(dd_pct) ELSE Zero,
         n_trades |-> n_trades,
         wins |-> wins,
         win_rate |-> IF n_trades # 0 THEN Fin(wins, n_trades) ELSE Zero,
         profit_factor |-> IF Truthy(gross_loss) THEN Div(gross_profit, gross_loss)
                           ELSE PInf,
         cum_series |-> cum,
         dd_series |-> dd,
         dd_pct_series |-> dd_pct,
         exit_times |-> [i \in 1..Len(trades) |-> trades[i].ExitTime]]

\* The outcomes of compute_metrics(df, starting_capital): on an empty
\* frame trades["ExitTime"].iloc[0] (line 148) raises IndexError.
compute_metrics(df, starting_capital) ==
    IF Len(df) = 0 THEN {Raised("IndexError")}
    ELSE {Returned(MetricsOf(trades, starting_capital)) : trades \in sort_values(df)}

-----------------------------------------------------------------------------
(* monthly_returns_table *)

\* the elements of a finite set of integers, ascending
RECURSIVE SortedSeq(_)
SortedSeq(S) ==
    IF S = {} THEN <<>>
    ELSE LET lo == CHOOSE x \in S : \A y \in S : x <= y
         IN  <<lo>> \o SortedSeq(S \ {lo})

\* groupby(["Year", "Month"])["PnL"].sum().unstack(fill_value=0): the rows
\* with a NaT exit have no group; a (year, month) without trades holds 0.
HasExit(t) == t.ExitTime # NaT

GroupSum(trades, y, mo) ==
    LET InGroup(t) == HasExit(t) /\ Year(t.ExitTime) = y /\ Month(t.ExitTime) = mo
    IN  SeriesSum(PnLs(SelectSeq(trades, InGroup)))

\* the month columns with lines 194-196 left out: those of the pivot only
MonthColumnsSparse(trades) ==
    SortedSeq({Month(t.ExitTime) : t \in {r \in Range(trades) : HasExit(r)}})

\* the month columns: those of the pivot, then the missing ones of 1..12
\* appended (lines 194-196), then sorted (line 197)
MonthColumns(trades) ==
    LET present == {Month(t.ExitTime) : t \in {r \in Range(trades) : HasExit(r)}}
        missing == {mo \in 1..MonthsPerYear : mo \notin present}
    IN  SortedSeq(present \cup missing)

\* pivot.sum(axis=1): NaN cells are skipped
RowSum(cells, columns) == SeriesSum([i \in 1..Len(columns) |-> cells[columns[i]]])

DollarRow(trades, y, columns) ==
    LET cells == [mo \in Range(columns) |-> GroupSum(trades, y, mo)]
    IN  [cells |-> cells, YTD |-> RowSum(cells, columns)]

\* pivot / starting_capital * 100, elementwise
PctRow(row, starting_capital) ==
    [cells |-> [mo \in DOMAIN row.cells |->
                  Times100(Div(row.cells[mo], Fin(starting_capital, 1)))],
     YTD |-> Times100(Div(row.YTD, Fin(starting_capital, 1)))]

\* The grid on a sorted frame: the years (the index, ascending), the month
\* columns in order (the YTD column comes after them), and per year the
\* row of the dollar pivot and of the percent pivot.
GridOf(trades, starting_capital) ==
    LET years == {Year(t.ExitTime) : t \in {r \in Range(trades) : HasExit(r)}}
        columns == MonthColumns(trades)
        pivot == [y \in years |-> DollarRow(trades, y, columns)]
    IN  [years |-> SortedSeq(years),
         columns |-> columns,
         pivot |-> pivot,
         pivot_pct |-> [y \in years |-> PctRow(pivot[y], starting_capital)]]

monthly_returns_table(df, starting_capital) ==
    {Returned(GridOf(trades, starting_capital)) : trades \in sort_values(df)}

-----------------------------------------------------------------------------
(* Specifications of the helpers alone: any argument, then one call. *)

Strings(n) == UNION {[1..k -> Chars] : k \in 0..n}

SeqsUpTo(S, n) == UNION {[1..k -> S] : k \in 0..n}

NoCall == [called |-> FALSE]

\* the page script has not started
FlowIdle ==
    /\ pc = "idle"
    /\ uploaded_files = <<>>
    /\ all_dfs = <<>>
    /\ capital_map = <<>>
    /\ selected = <<>>
    /\ combined = <<>>
    /\ total_capital = 0
    /\ start_date = 0

flowVars == <<pc, uploaded_files, all_dfs, capital_map, selected, combined,
              total_capital, start_date>>

InitParse ==
    /\ FlowIdle
    /\ m = NoCall
    /\ grid = NoCall
    /\ val \in {Missing} \cup {Cell(s) : s \in Strings(MaxLen)}
    /\ parsed = NoCall
    /\ table = <<>>
    /\ loaded = NoCall
    /\ arg_df = <<>>
    /\ arg_capital = 0

CallParseProfit ==
    /\ ~parsed.called
    /\ parsed' = Returned(parse_profit(val))
    /\ UNCHANGED <<flowVars, m, grid, val, table, loaded, arg_df, arg_capital>>

NextParse == CallParseProfit

SpecParse == InitParse /\ [][NextParse]_vars

\* the cells the rows of a CSV are drawn from
ProfitCells ==
    {Missing, Cell(<<"$", "1">>), Cell(<<"(", "5", ")">>), Cell(<<"i", "n", "f">>)}
ExitCells == {OkTime(T(0, 1)), OkTime(T(1, 0)), BadTime, MissingTime}
EntryCells == {OkTime(T(0, 0)), BadTime, MissingTime}

LoadRows == {Row(p, x, e) : p \in ProfitCells, x \in ExitCells, e \in EntryCells}

InitLoad ==
    /\ FlowIdle
    /\ m = NoCall
    /\ grid = NoCall
    /\ val = Missing
    /\ parsed = NoCall
    /\ table \in SeqsUpTo(LoadRows, MaxRows)
    /\ loaded = NoCall
    /\ arg_df = <<>>
    /\ arg_capital = 0

CallLoadCsv ==
    /\ ~loaded.called
    /\ loaded' = load_csv(table)
    /\ UNCHANGED <<flowVars, m, grid, val, parsed, table, arg_df, arg_capital>>

NextLoad == CallLoadCsv

SpecLoad == InitLoad /\ [][NextLoad]_vars

\* the trades a frame is drawn from: the profits parse_profit can yield
\* and exit times in two months of one year, in the next year, and NaT
MetricPnLs == {Fin(-2, 1), Fin(-1, 1), Zero, Fin(1, 1), PInf, NInf}
MetricTimes == {T(0, 1), T(1, 0), T(MonthsPerYear, 0), NaT}

MetricTrades == {Trade(p, x, x) : p \in MetricPnLs, x \in MetricTimes}

InitMetrics ==
    /\ FlowIdle
    /\ m = NoCall
    /\ grid = NoCall
    /\ val = Missing
    /\ parsed = NoCall
    /\ table = <<>>
    /\ loaded = NoCall
    /\ arg_df \in SeqsUpTo(MetricTrades, MaxTrades)
    /\ arg_capital \in 0..MaxCapital

CallComputeMetrics ==
    /\ ~m.called
    /\ m' \in compute_metrics(arg_df, arg_capital)
    /\ UNCHANGED <<flowVars, grid, val, parsed, table, loaded, arg_df, arg_capital>>

CallMonthlyReturnsTable ==
    /\ ~grid.called
    /\ grid' \in monthly_returns_table(arg_df, arg_capital)
    /\ UNCHANGED <<flowVars, m, val, parsed, table, loaded, arg_df, arg_capital>>

NextMetrics == CallComputeMetrics \/ CallMonthlyReturnsTable

SpecMetrics == InitMetrics /\ [][NextMetrics]_vars

\* monthly_returns_table alone
NextMonthly == CallMonthlyReturnsTable

SpecMonthly == InitMetrics /\ [][NextMonthly]_vars

-----------------------------------------------------------------------------
(* C4: for every cell, parse_profit returns a finite number: 0 for a       *)
(* missing cell and for a cell that is not a number once "$", "," and the  *)
(* parentheses are removed, and the negative of the enclosed amount for an *)
(* amount wrapped in parentheses.                                          *)

\* a decimal amount, after "$" and "," are ignored
IsAmount(s) == AllDigits(Strip(s)) /\ ~HasParen(s) /\ \A i \in 1..Len(s) : s[i] # ")"

Wrapped(s) == Len(s) >= 2 /\ s[1] = "(" /\ s[Len(s)] = ")"

Inner(s) == SubSeq(s, 2, Len(s) - 1)

-----------------------------------------------------------------------------
(* C3: a table with rows whose entry or exit time cannot be parsed loads:  *)
(* those rows are left out, every other row is kept, and every trade of    *)
(* the result has an exit and an entry timestamp.                          *)

GoodRow(r) == r.Exit.k = "ok" /\ r.Entry.k = "ok"

RECURSIVE GoodRows(_)
GoodRows(tbl) ==
    IF tbl = <<>> THEN <<>>
    ELSE IF GoodRow(Head(tbl)) THEN <<Head(tbl)>> \o GoodRows(Tail(tbl))
         ELSE GoodRows(Tail(tbl))

\* C3: the load returns the rows whose times parse, and no trade of the
\* result has a null timestamp.
C3_BadRowsDropped ==
    loaded.called =>
        /\ ~loaded.raised
        /\ loaded.value = load_csv(GoodRows(table)).value
        /\ \A i \in 1..Len(loaded.value) :
               loaded.value[i].ExitTime # NaT /\ loaded.value[i].EntryTime # NaT

-----------------------------------------------------------------------------
(* The page flow: the module-level script of app.py, lines 246-347.  One   *)
(* run of the script goes from "start" to "done", "stopped" (st.stop) or   *)
(* "error" (an uncaught exception); any widget change reruns it.           *)

\* an uploaded file: its name, whether it has a Strategy column, its rows
File(name, strategy, rows) == [name |-> name, Strategy |-> strategy, rows |-> rows]

\* label = f"{strat_name} ({f.name})": it ends with the file name, so two
\* uploads have the same label exactly when they have the same name
Label(f) == f.name

Labels(files) == {Label(files[i]) : i \in 1..Len(files)}

FileOf(files, label) == files[CHOOSE i \in 1..Len(files) : Label(files[i]) = label]

\* One pass of the loop of lines 261-272 raises when load_csv raises, when
\* df["Strategy"].iloc[0] is taken of a frame without rows (IndexError),
\* or when st.number_input gets the key of an earlier upload (two uploads
\* of one name: duplicate widget key).
ParseRaises(files) ==
    \/ \E i \in 1..Len(files) : load_csv(files[i].rows).raised
    \/ \E i \in 1..Len(files) : files[i].Strategy /\ files[i].rows = <<>>
    \/ \E i, j \in 1..Len(files) : i # j /\ files[i].name = files[j].name

\* pd.concat([all_dfs[s] for s in sel], ignore_index=True), over every
\* upload instead of the selected ones
RECURSIVE concat_all(_, _)
concat_all(dfs, sel) ==
    LET keys == DOMAIN dfs
    IN  IF keys = {} THEN <<>>
        ELSE LET k == CHOOSE x \in keys : TRUE
             IN  dfs[k] \o concat_all([x \in keys \ {k} |-> dfs[x]], sel)

\* pd.concat([all_dfs[s] for s in sel], ignore_index=True)
RECURSIVE concat(_, _)
concat(dfs, sel) ==
    IF sel = <<>> THEN <<>>
    ELSE dfs[Head(sel)] \o concat(dfs, Tail(sel))

\* sum(capital_map[s] for s in sel)
RECURSIVE sum_capital(_, _)
sum_capital(caps, sel) ==
    IF sel = <<>> THEN 0
    ELSE caps[Head(sel)] + sum_capital(caps, Tail(sel))

\* the filter with > in place of >=: a trade that exits at midnight of the
\* start date is dropped
OnOrAfterStrict(t, d) == t.ExitTime # NaT /\ t.ExitTime > Timestamp(d)

\* combined[combined["ExitTime"] >= pd.Timestamp(d)].reset_index(drop=True);
\* a comparison with NaT is false
OnOrAfter(t, d) == t.ExitTime # NaT /\ t.ExitTime >= Timestamp(d)

date_filter(frame, d) == SelectSeq(frame, LAMBDA t : OnOrAfter(t, d))

\* combined["ExitTime"].min() and .max(): NaT entries are skipped
ExitTimes(frame) == {frame[i].ExitTime : i \in 1..Len(frame)} \ {NaT}

MinTime(frame) == CHOOSE t \in ExitTimes(frame) : \A u \in ExitTimes(frame) : t <= u
MaxTime(frame) == CHOOSE t \in ExitTimes(frame) : \A u \in ExitTimes(frame) : u <= t

\* the rows the uploads of the flow are made of
FlowRows ==
    {Row(Cell(<<"$", "1">>), OkTime(T(0, 1)), OkTime(T(0, 0))),
     Row(Cell(<<"(", "5", ")">>), OkTime(T(1, 0)), OkTime(T(0, 0))),
     Row(Cell(<<"$", "1">>), MissingTime, OkTime(T(0, 0))),
     Row(Cell(<<"$", "1">>), BadTime, OkTime(T(0, 0)))}

FlowFiles(name) ==
    {File(name, TRUE, rows) : rows \in SeqsUpTo(FlowRows, MaxRows)}
        \cup {File(name, FALSE, <<>>)}

\* no upload, one, two, or one file uploaded twice
FlowUploads ==
    {<<>>}
        \cup {<<f>> : f \in FlowFiles("a.csv")}
        \cup {<<f, g>> : f \in FlowFiles("a.csv"), g \in FlowFiles("b.csv")}
        \cup {<<f, f>> : f \in FlowFiles("a.csv")}

\* st.number_input(min_value=0): the capitals entered in the flow
FlowCapitals == {0, MaxCapital}

\* st.sidebar.multiselect: the chosen options, in the order chosen
Selections(options) ==
    {q \in SeqsUpTo(options, Cardinality(options)) :
        \A i, j \in 1..Len(q) : q[i] = q[j] => i = j}

InitFlow ==
    /\ pc = "start"
    /\ uploaded_files = <<>>
    /\ all_dfs = <<>>
    /\ capital_map = <<>>
    /\ selected = <<>>
    /\ combined = <<>>
    /\ total_capital = 0
    /\ start_date = 0
    /\ m = NoCall
    /\ grid = NoCall
    /\ val = Missing
    /\ parsed = NoCall
    /\ table = <<>>
    /\ loaded = NoCall
    /\ arg_df = <<>>
    /\ arg_capital = 0

helperVars == <<val, parsed, table, loaded, arg_df, arg_capital>>

\* lines 248-256: st.file_uploader, st.stop() without uploads
Upload ==
    /\ pc = "start"
    /\ \E files \in FlowUploads :
          /\ uploaded_files' = files
          /\ pc' = IF files = <<>> THEN "stopped" ELSE "parse"
    /\ UNCHANGED <<all_dfs, capital_map, selected, combined, total_capital,
                   start_date, m, grid, helperVars>>

\* lines 259-272: load every upload and read its capital
ParseUploads ==
    /\ pc = "parse"
    /\ IF ParseRaises(uploaded_files)
       THEN /\ pc' = "error"
            /\ UNCHANGED <<all_dfs, capital_map>>
       ELSE /\ all_dfs' = [l \in Labels(uploaded_files) |->
                              load_csv(FileOf(uploaded_files, l).rows).value]
            /\ capital_map' \in [Labels(uploaded_files) -> FlowCapitals]
            /\ pc' = "select"
    /\ UNCHANGED <<uploaded_files, selected, combined, total_capital,
                   start_date, m, grid, helperVars>>

\* lines 275-284: st.sidebar.multiselect, st.stop() on an empty selection
SelectStrategies ==
    /\ pc = "select"
    /\ \E sel \in Selections(DOMAIN all_dfs) :
          /\ selected' = sel
          /\ pc' = IF sel = <<>> THEN "stopped" ELSE "combine"
    /\ UNCHANGED <<uploaded_files, all_dfs, capital_map, combined,
                   total_capital, start_date, m, grid, helperVars>>

\* lines 286-289: concat, sort, sum the capitals
Combine ==
    /\ pc = "combine"
    /\ combined' \in sort_values(concat(all_dfs, selected))
    /\ total_capital' = sum_capital(capital_map, selected)
    /\ pc' = "date"
    /\ UNCHANGED <<uploaded_files, all_dfs, capital_map, selected,
                   start_date, m, grid, helperVars>>

\* lines 291-305: the start date is entered within [min_date, max_date] and
\* the frame is filtered; st.stop() when nothing is left.  Without any exit
\* time min() is NaT and st.date_input fails on it.
DateFilter ==
    /\ pc = "date"
    /\ IF ExitTimes(combined) = {}
       THEN /\ pc' = "error"
            /\ UNCHANGED <<start_date, combined>>
       ELSE LET min_date == Date(MinTime(combined))
                max_date == Date(MaxTime(combined))
            IN  \E d \in min_date..max_date :
                   /\ start_date' = d
                   /\ combined' = date_filter(combined, d)
                   /\ pc' = IF date_filter(combined, d) = <<>> THEN "stopped"
                            ELSE "metrics"
    /\ UNCHANGED <<uploaded_files, all_dfs, capital_map, selected,
                   total_capital, m, grid, helperVars>>

\* line 311
Metrics ==
    /\ pc = "metrics"
    /\ m' \in compute_metrics(combined, total_capital)
    /\ pc' = IF m'.raised THEN "error" ELSE "monthly"
    /\ UNCHANGED <<uploaded_files, all_dfs, capital_map, selected, combined,
                   total_capital, start_date, grid, helperVars>>

\* line 347
Monthly ==
    /\ pc = "monthly"
    /\ grid' \in monthly_returns_table(combined, total_capital)
    /\ pc' = IF grid'.raised THEN "error" ELSE "done"
    /\ UNCHANGED <<uploaded_files, all_dfs, capital_map, selected, combined,
                   total_capital, start_date, m, helperVars>>

\* a widget changes: Streamlit runs the script again from the top
Rerun ==
    /\ pc \in {"done", "stopped", "error"}
    /\ pc' = "start"
    /\ uploaded_files' = <<>>
    /\ all_dfs' = <<>>
    /\ capital_map' = <<>>
    /\ selected' = <<>>
    /\ combined' = <<>>
    /\ total_capital' = 0
    /\ start_date' = 0
    /\ m' = NoCall
    /\ grid' = NoCall
    /\ UNCHANGED helperVars

Init == InitFlow

Next ==
    \/ Upload
    \/ ParseUploads
    \/ SelectStrategies
    \/ Combine
    \/ DateFilter
    \/ Metrics
    \/ Monthly
    \/ Rerun

Spec == Init /\ [][Next]_vars

-----------------------------------------------------------------------------
(* Arithmetic the claims are stated in: sums and maxima as IEEE computes   *)
(* them, nothing skipped.                                                  *)

RECURSIVE PlainSum(_)
PlainSum(xs) ==
    IF xs = <<>> THEN Zero
    ELSE Add(PlainSum(SubSeq(xs, 1, Len(xs) - 1)), xs[Len(xs)])

\* the same value: equal numbers, or both NaN
SameValue(x, y) == (IsNaN(x) /\ IsNaN(y)) \/ Eq(x, y)

AllFinite(frame) == \A i \in 1..Len(frame) : IsFinite(frame[i].PnL)

MetricsReturned == m.called /\ ~m.raised

GridReturned == grid.called /\ ~grid.raised

-----------------------------------------------------------------------------
(* C1: on an empty trade set and a positive capital compute_metrics        *)
(* returns n_trades = 0, win_rate = 0, profit_factor = +infinity, the      *)
(* other scalars 0 and empty series, and monthly_returns_table returns an  *)
(* empty grid.                                                             *)

\* C1: on the empty trade set both functions return, with the zero, the
\* +infinity and the empty values.
C1_EmptySetResult ==
    (arg_df = <<>> /\ arg_capital > 0) =>
        /\ m.called =>
              /\ ~m.raised
              /\ m.value.n_trades = 0
              /\ m.value.wins = 0
              /\ m.value.win_rate = Zero
              /\ m.value.profit_factor = PInf
              /\ m.value.total_pnl = Zero
              /\ m.value.max_dd = Zero
              /\ m.value.max_dd_pct = Zero
              /\ m.value.cum_series = <<>>
              /\ m.value.dd_series = <<>>
              /\ m.value.dd_pct_series = <<>>
        /\ grid.called => (~grid.raised /\ grid.value.years = <<>>)

-----------------------------------------------------------------------------
(* C5: on a non-empty trade sequence the returned dollar drawdown is       *)
(* dd[i] = cum[i] - max(cum[0..i]) <= 0 at every index, cum being the      *)
(* running sum of profit over the trades sorted by exit time, and max_dd   *)
(* is the minimum of dd.                                                   *)

\* cum is the running sum of profit over some ordering of the frame by
\* exit time
IsRunningSum(frame, r) ==
    \E q \in sort_values(frame) :
        /\ [i \in 1..Len(q) |-> q[i].ExitTime] = r.exit_times
        /\ \A i \in 1..Len(q) :
               SameValue(r.cum_series[i], PlainSum(SubSeq(PnLs(q), 1, i)))

\* x is the largest of xs[1..i]
IsMaxOf(x, xs, i) ==
    /\ \E j \in 1..i : SameValue(x, xs[j])
    /\ \A j \in 1..i : Le(xs[j], x)

\* x is the smallest of xs
IsMinOf(x, xs) ==
    /\ \E j \in 1..Len(xs) : SameValue(x, xs[j])
    /\ \A j \in 1..Len(xs) : Le(x, xs[j])

\* C5: dd[i] = cum[i] - max(cum[1..i]) <= 0 for the running sum cum of the
\* sorted trades, and max_dd = min(dd).
C5_DrawdownNonPositive ==
    (MetricsReturned /\ Len(arg_df) > 0) =>
        LET r == m.value
        IN  /\ Len(r.cum_series) = Len(arg_df)
            /\ Len(r.dd_series) = Len(arg_df)
            /\ IsRunningSum(arg_df, r)
            /\ \A i \in 1..Len(arg_df) :
                   /\ Le(r.dd_series[i], Zero)
                   /\ \E pk \in Range(r.cum_series) :
                          /\ IsMaxOf(pk, r.cum_series, i)
                          /\ SameValue(r.dd_series[i], Sub(r.cum_series[i], pk))
            /\ IsMinOf(r.max_dd, r.dd_series)

\* C5 on trade sequences of finite profits
C5_FiniteProfits == AllFinite(arg_df) => C5_DrawdownNonPositive

-----------------------------------------------------------------------------
(* C6: on a non-empty trade sequence and a positive capital max_dd_pct is  *)
(* <= 0, and it is 0 only when the equity series (capital + cumulative     *)
(* P&L) never decreases; also when losses take equity to zero or below.    *)
(* Stated for finite profits.                                              *)

NonDecreasing(xs) == \A i \in 1..Len(xs) - 1 : Le(xs[i], xs[i + 1])

EquitySeries(r) ==
    [i \in 1..Len(r.cum_series) |-> Add(Fin(r.starting_capital, 1), r.cum_series[i])]

\* C6: for finite profits and a capital > 0, max_dd_pct <= 0, and = 0 only
\* when equity never decreases.
C6_MaxDDPctNonPositive ==
    (MetricsReturned /\ Len(arg_df) > 0 /\ arg_capital > 0 /\ AllFinite(arg_df)) =>
        /\ Le(m.value.max_dd_pct, Zero)
        /\ Eq(m.value.max_dd_pct, Zero) => NonDecreasing(EquitySeries(m.value))

-----------------------------------------------------------------------------
(* C7: for every trade set, the empty one included, compute_metrics        *)
(* returns profit_factor = +infinity when no trade has a negative profit,  *)
(* and otherwise the finite number (sum of positive profits) / |sum of     *)
(* negative profits| >= 0; it never raises.  Stated for finite profits.    *)

Positives(frame) == SelectSeq(PnLs(frame), IsPos)
Negatives(frame) == SelectSeq(PnLs(frame), IsNeg)

ProfitFactorAsClaimed(frame, pf) ==
    IF Negatives(frame) = <<>> THEN pf = PInf
    ELSE /\ IsFinite(pf)
         /\ Le(Zero, pf)
         /\ Eq(pf, Div(PlainSum(Positives(frame)), Abs(PlainSum(Negatives(frame)))))

\* C7: for finite profits, compute_metrics returns, with profit_factor =
\* +infinity without a losing trade and gross profit / gross loss otherwise.
C7_ProfitFactor ==
    (m.called /\ AllFinite(arg_df)) =>
        /\ ~m.raised
        /\ ProfitFactorAsClaimed(arg_df, m.value.profit_factor)

\* C7 on non-empty trade sets
C7_NonEmpty == Len(arg_df) > 0 => C7_ProfitFactor

-----------------------------------------------------------------------------
(* C8: for a non-empty trade set the grid has one row per calendar year in *)
(* which a trade exited, in ascending year order, and the columns 1..12    *)
(* then YTD; a month without trades holds 0.0, also in a year whose trades *)
(* all lie in one month.                                                   *)

ExitsIn(frame, y) ==
    SelectSeq(frame, LAMBDA t : HasExit(t) /\ Year(t.ExitTime) = y)

ExitsInMonth(frame, y, mo) ==
    SelectSeq(frame, LAMBDA t : HasExit(t) /\ Year(t.ExitTime) = y
                                           /\ Month(t.ExitTime) = mo)

AllMonths == [i \in 1..MonthsPerYear |-> i]

\* C8: one row per year with an exit, years ascending, columns 1..12 (then
\* YTD), and 0.0 in every month without trades.
C8_DenseGrid ==
    (GridReturned /\ Len(arg_df) > 0) =>
        LET g == grid.value
        IN  /\ \A i \in 1..Len(g.years) - 1 : g.years[i] < g.years[i + 1]
            /\ \A t \in Range(arg_df) :
                   HasExit(t) => Year(t.ExitTime) \in Range(g.years)
            /\ \A y \in Range(g.years) : ExitsIn(arg_df, y) # <<>>
            /\ DOMAIN g.pivot = Range(g.years)
            /\ DOMAIN g.pivot_pct = Range(g.years)
            /\ g.columns = AllMonths
            /\ \A y \in Range(g.years) :
                   /\ DOMAIN g.pivot[y].cells = 1..MonthsPerYear
                   /\ DOMAIN g.pivot_pct[y].cells = 1..MonthsPerYear
                   /\ \A mo \in 1..MonthsPerYear :
                          ExitsInMonth(arg_df, y, mo) = <<>> =>
                              /\ g.pivot[y].cells[mo] = Zero
                              /\ arg_capital > 0 =>
                                     Eq(g.pivot_pct[y].cells[mo], Zero)

\* C8, witness: a grid of two years, one of them with trades in one month
\* only.
C8_Witness ==
    /\ GridReturned
    /\ Len(grid.value.years) = 2
    /\ \E y \in Range(grid.value.years) :
           Cardinality({mo \in 1..MonthsPerYear :
                           ExitsInMonth(arg_df, y, mo) # <<>>}) = 1
    /\ C8_DenseGrid

-----------------------------------------------------------------------------
(* C9: for every year of the grid, the YTD value of the dollar grid is the *)
(* sum of the profit of the trades that exited in that year, and the sum   *)
(* of the 12 monthly values of its row.                                    *)

\* C9: YTD of a year = sum of the profits of its trades = sum of its 12
\* monthly values.
C9_YTDIsYearSum ==
    GridReturned =>
        \A y \in DOMAIN grid.value.pivot :
            LET row == grid.value.pivot[y]
            IN  /\ SameValue(row.YTD, PlainSum(PnLs(ExitsIn(arg_df, y))))
                /\ SameValue(row.YTD,
                             PlainSum([mo \in 1..MonthsPerYear |-> row.cells[mo]]))

\* C9 on trade sets of finite profits
C9_FiniteProfits == AllFinite(arg_df) => C9_YTDIsYearSum

-----------------------------------------------------------------------------
(* C2: in every run of the page flow compute_metrics and                   *)
(* monthly_returns_table are reached only with at least one portfolio      *)
(* selected and a combined capital > 0; with an empty selection or a       *)
(* combined capital of 0 the flow halts before any metric is computed.     *)

\* compute_metrics or monthly_returns_table has been called in this run
AtMetrics == m.called \/ grid.called

\* C2: the metrics functions are called only with a selection and a
\* combined capital > 0.
C2_MetricsNeedCapital ==
    AtMetrics => (Len(selected) > 0 /\ total_capital > 0)

\* C2, the half about the selection
C2_MetricsNeedSelection == AtMetrics => Len(selected) > 0

-----------------------------------------------------------------------------
(* C10: for a non-empty selection the frame handed to compute_metrics is   *)
(* the multiset union of the selected uploads' trades that exit on or      *)
(* after the start date, in ascending order of exit time, and the capital  *)
(* handed to it is the sum of the selected uploads' capitals; unselected   *)
(* uploads contribute nothing.                                             *)

\* how often x occurs in a frame
Count(frame, x) == Cardinality({i \in 1..Len(frame) : frame[i] = x})

RECURSIVE SumOver(_, _)
SumOver(S, f) ==
    IF S = {} THEN 0
    ELSE LET x == CHOOSE y \in S : TRUE
         IN  f[x] + SumOver(S \ {x}, f)

ExitsOnOrAfter(x, d) == x.ExitTime # NaT /\ Date(x.ExitTime) >= d

\* how often x is due in the frame handed to compute_metrics
Due(x) ==
    IF ExitsOnOrAfter(x, start_date)
    THEN SumOver(Range(selected), [l \in DOMAIN all_dfs |-> Count(all_dfs[l], x)])
    ELSE 0

\* C10: at the call of compute_metrics, combined is sorted by exit time and
\* holds each trade as often as the selected uploads hold it on or after
\* the start date, and total_capital is the sum of the selected capitals.
C10_CombinedIsSelectedUnion ==
    (pc = "metrics" \/ m.called) =>
        /\ \A i \in 1..Len(combined) - 1 :
               combined[i].ExitTime <= combined[i + 1].ExitTime
        /\ \A i \in 1..Len(combined) : combined[i].ExitTime # NaT
        /\ \A l \in DOMAIN all_dfs : \A x \in Range(all_dfs[l]) :
               Count(combined, x) = Due(x)
        /\ \A x \in Range(combined) : Due(x) > 0
        /\ total_capital = SumOver(Range(selected), capital_map)

\* C10, witness: one of two uploads is selected, the other one has a trade
\* on or after the start date and a capital, and the start date leaves
\* out a trade of the selected upload.
C10_Witness ==
    /\ pc = "metrics"
    /\ Len(selected) = 1
    /\ \E l \in DOMAIN all_dfs \ Range(selected) :
           /\ capital_map[l] > 0
           /\ \E x \in Range(all_dfs[l]) : ExitsOnOrAfter(x, start_date)
    /\ Len(combined) > 0
    /\ Len(combined) < Len(all_dfs[selected[1]])
    /\ \E x \in Range(all_dfs[selected[1]]) :
           x.ExitTime # NaT /\ ~ExitsOnOrAfter(x, start_date)
    /\ C10_CombinedIsSelectedUnion

-----------------------------------------------------------------------------
(* C11: when every uploaded file holds at least one trade, the date filter *)
(* never empties the working set: the start date lies in [date of the      *)
(* earliest exit, date of the latest exit] of the combined selection, so   *)
(* the halt of line 303 is not reached and compute_metrics is never called *)
(* on an empty trade set in the page flow.                                 *)

EveryFileHasTrade == \A l \in DOMAIN all_dfs : all_dfs[l] # <<>>

\* the page has passed the date filter of lines 291-305 in this run
PastDateFilter == pc \in {"metrics", "monthly", "done"} \/ m.called

\* st.stop() of line 305: the only halt with a selection
DateFilterHalt == pc = "stopped" /\ selected # <<>>

\* the selected uploads' trades, before the filter
Selection == concat(all_dfs, selected)

\* C11: with a trade in every upload, the start date is within the dates
\* of the earliest and the latest exit of the selection, the date filter
\* leaves at least one trade, the halt of line 303 is not reached and
\* compute_metrics is not called on an empty frame.
C11_FilterNeverEmpties ==
    EveryFileHasTrade =>
        /\ ~DateFilterHalt
        /\ PastDateFilter =>
               /\ ExitTimes(Selection) # {}
               /\ Date(MinTime(Selection)) <= start_date
               /\ start_date <= Date(MaxTime(Selection))
               /\ combined # <<>>
        /\ m.called => (combined # <<>> /\ (m.raised => m.error # "IndexError"))

\* C11, witness: the start date is the date of the latest exit, later than
\* the date of the earliest one; the filter has dropped a trade and kept
\* the one that exits at midnight of the start date, and compute_metrics
\* has been called.
C11_Witness ==
    /\ m.called
    /\ \A l \in DOMAIN all_dfs : all_dfs[l] # <<>>
    /\ start_date = Date(MaxTime(Selection))
    /\ start_date > Date(MinTime(Selection))
    /\ Len(combined) < Len(Selection)
    /\ \E i \in 1..Len(combined) : combined[i].ExitTime = Timestamp(start_date)
    /\ C11_FilterNeverEmpties

====
